---- MODULE Spec2Model ----
(***************************************************************************)
(* BASP instance (libcaf_io/src/instance.cpp): the per-node engine that    *)
(* parses frames arriving on stream and datagram handles, keeps the        *)
(* routing table, forwards frames and calls back into the actor runtime    *)
(* (the callee).                                                           *)
(*                                                                         *)
(* Buffers are sequences of cells.  A cell is one serialized field: t is   *)
(* the wire type of the field, s its symbolic value (node ids, operation   *)
(* tags, strings), v its numeric value.  A header occupies header_size     *)
(* cells, one per field, in the order the serializer writes them.          *)
(*                                                                         *)
(* The routing table (routing_table.cpp), the header validity predicate    *)
(* (header.cpp) and the broker that calls handle() are not part of the     *)
(* sources at hand; they are modelled from the specification, sections     *)
(* 4.1 - 4.3.  Indirect routes are never populated by instance.cpp (the    *)
(* only calls are in comments, lines 204-212), so the table holds direct   *)
(* routes only.                                                            *)
(***************************************************************************)
EXTENDS Integers, Sequences, FiniteSets, TLC

VARIABLES
  direct_by_hdl,      \* tbl_.direct_by_hdl_ : handle -> node (none = absent)
  direct_by_nid,      \* tbl_.direct_by_nid_ : node -> handle (nohdl = absent)
  wr_buf,             \* write buffer of every handle (cells not yet flushed)
  published_actors,   \* port -> published actor (NoActor = absent)
  cstate,             \* connection state of every stream handle (kept by the caller)
  hdrs,               \* header retained by the caller between the two phases
  last,               \* the last call made on the instance and what it returned
  ev                  \* callee calls, hooks, writes and flushes of the last call, in order

vars == <<direct_by_hdl, direct_by_nid, wr_buf, published_actors, cstate, hdrs, last, ev>>

--------------------------------------------------------------------------
(* Identities *)

none == "none"
this_node == "n0"
RemoteNodes == {"n1", "n2"}
NodeIds == {this_node} \cup RemoteNodes

nohdl == "nohdl"
StreamHandles == {"ha", "hb"}
DgramHandles == {"da"}
Handles == StreamHandles \cup DgramHandles

invalid_actor_id == 0
version == 1
header_size == 8
named_receiver_flag == 1
middleman_app_identifier == "mine"

MessageTypes ==
  {"server_handshake", "client_handshake", "dispatch_message", "announce_proxy",
   "kill_proxy", "heartbeat", "udp_server_handshake", "udp_client_handshake"}

--------------------------------------------------------------------------
(* Cells and the header codec *)

Cell(t, s, v) == [t |-> t, s |-> s, v |-> v]

Header(op, fl, len, data, src, dst, sa, da) ==
  [operation |-> op, flags |-> fl, payload_len |-> len, operation_data |-> data,
   source_node |-> src, dest_node |-> dst, source_actor |-> sa, dest_actor |-> da]

NoHdr == Header("none", 0, 0, 0, none, none, 0, 0)

\* bs(hdr): the fields in declaration order, one cell each
encode(hdr) ==
  << Cell("op", hdr.operation, 0),
     Cell("u8", "", hdr.flags),
     Cell("u32", "", hdr.payload_len),
     Cell("u64", "", hdr.operation_data),
     Cell("node", hdr.source_node, 0),
     Cell("node", hdr.dest_node, 0),
     Cell("u64", "", hdr.source_actor),
     Cell("u64", "", hdr.dest_actor) >>

HeaderCellTypes == <<"op", "u8", "u32", "u64", "node", "node", "u64", "u64">>

\* bd(hdr): e is set when the buffer is short or a field does not parse
decode_ok(buf) ==
  /\ Len(buf) >= header_size
  /\ \A i \in 1..header_size : buf[i].t = HeaderCellTypes[i]

decode(buf) ==
  IF decode_ok(buf)
  THEN Header(buf[1].s, buf[2].v, buf[3].v, buf[4].v, buf[5].s, buf[6].s, buf[7].v, buf[8].v)
  ELSE NoHdr

is_handshake(hdr) ==
  hdr.operation \in {"server_handshake", "client_handshake",
                     "udp_server_handshake", "udp_client_handshake"}

is_heartbeat(hdr) == hdr.operation = "heartbeat"

valid(hdr) ==
  /\ hdr.operation \in MessageTypes
  /\ is_handshake(hdr) => hdr.payload_len > 0
  /\ hdr.operation \in {"heartbeat", "announce_proxy"} => hdr.payload_len = 0
  /\ hdr.operation = "announce_proxy" => hdr.dest_actor # invalid_actor_id

has_named_receiver(hdr) == hdr.flags = named_receiver_flag

--------------------------------------------------------------------------
(* Events of one call: callee callbacks, hooks, buffer writes, flushes *)

Ev(e, node, hdl, s, a, b, c, buf) ==
  [e |-> e, node |-> node, hdl |-> hdl, s |-> s, a |-> a, b |-> b, c |-> c, buf |-> buf]

EvNode(e, node) == Ev(e, node, nohdl, "", 0, 0, 0, <<>>)
EvBuf(e, hdl, buf) == Ev(e, none, hdl, "", 0, 0, 0, buf)

Names(evs) == [i \in 1..Len(evs) |-> evs[i].e]
Count(evs, e) == Cardinality({i \in 1..Len(evs) : evs[i].e = e})
CountNode(evs, e, n) == Cardinality({i \in 1..Len(evs) : evs[i].e = e /\ evs[i].node = n})
Has(evs, e) == \E i \in 1..Len(evs) : evs[i].e = e

--------------------------------------------------------------------------
(* Routing table.  M is the instance's state during one call:             *)
(* [by_hdl, by_nid, wr_buf, ev].                                          *)

\* add(h, n) as two emplace calls: a key that is present keeps its entry
tbl_add_emplace(M, h, n) ==
  [M EXCEPT !.by_hdl = [@ EXCEPT ![h] = IF @ = none THEN n ELSE @],
            !.by_nid = [@ EXCEPT ![n] = IF @ = nohdl THEN h ELSE @],
            !.ev = Append(@, Ev("add", n, h, M.by_hdl[h],
                                IF M.by_nid[n] = nohdl THEN 0 ELSE 1, 0, 0, <<>>))]

\* add(h, n): an existing entry for either key is replaced and the other
\* side is updated, so that both maps stay inverse to each other.  The call is
\* recorded with the node h was bound to (s) and whether n had a handle (a).
tbl_add(M, h, n) ==
  LET old_n == M.by_hdl[h]
      old_h == M.by_nid[n]
      nid1 == [m \in NodeIds |->
                 IF m = n THEN h
                 ELSE IF m = old_n THEN nohdl
                 ELSE M.by_nid[m]]
      hdl1 == [g \in Handles |->
                 IF g = h THEN n
                 ELSE IF g = old_h THEN none
                 ELSE M.by_hdl[g]]
  IN [M EXCEPT !.by_hdl = hdl1, !.by_nid = nid1,
               !.ev = Append(@, Ev("add", n, h, old_n, IF old_h = nohdl THEN 0 ELSE 1,
                                   0, 0, <<>>))]

\* lookup_hdl(n): direct handle only
tbl_lookup_hdl(M, n) == IF n \in NodeIds THEN M.by_nid[n] ELSE nohdl

\* lookup_node(h): reverse lookup
tbl_lookup_node(M, h) == M.by_hdl[h]

\* lookup(n): the endpoint (write buffer of the handle, next hop) or nohdl
tbl_lookup(M, n) == tbl_lookup_hdl(M, n)

\* erase(h, cb): removes the node bound to h, cb(node) for the removed node
tbl_erase_hdl(M, h) ==
  LET n == M.by_hdl[h]
  IN IF n = none
     THEN M
     ELSE [M EXCEPT !.by_hdl = [@ EXCEPT ![h] = none],
                    !.by_nid = [@ EXCEPT ![n] = nohdl],
                    !.ev = Append(@, EvNode("purge_state", n))]

\* erase(n, cb): symmetric by node identity
tbl_erase_nid(M, n) ==
  LET h == tbl_lookup_hdl(M, n)
  IN IF h = nohdl
     THEN M
     ELSE [M EXCEPT !.by_hdl = [@ EXCEPT ![h] = none],
                    !.by_nid = [@ EXCEPT ![n] = nohdl],
                    !.ev = Append(@, EvNode("purge_state", n))]

\* flush(ep): hands the accumulated write buffer to the broker
tbl_flush(M, h) ==
  [M EXCEPT !.ev = Append(@, EvBuf("flush", h, M.wr_buf[h])),
            !.wr_buf = [@ EXCEPT ![h] = <<>>]]

--------------------------------------------------------------------------
(* Frame writer *)

\* a payload writer is the cells it appends; NoWriter is the null pointer
NoWriter == [present |-> FALSE, cells |-> <<>>]
Writer(cells) == [present |-> TRUE, cells |-> cells]

placeholder == [i \in 1..header_size |-> Cell("uninit", "", 0)]

\* stream_serializer<charbuf> out{buf.data() + pos, header_size}; out(hdr)
patch(buf, pos, cells) ==
  [i \in 1..Len(buf) |->
     IF i > pos /\ i <= pos + Len(cells) THEN cells[i - pos] ELSE buf[i]]

\* write() that counts the header into the payload length
write_counts_header(buf, hdr, pw) ==
  IF pw.present
  THEN LET pos == Len(buf)
           b1 == buf \o placeholder
           b2 == b1 \o pw.cells
           plen == Len(b2) - pos
           hdr2 == [hdr EXCEPT !.payload_len = plen]
       IN patch(b2, pos, encode(hdr2))
  ELSE buf \o encode(hdr)

\* write(ctx, buf, hdr, pw): the buffer after the call
write(buf, hdr, pw) ==
  IF pw.present
  THEN LET pos == Len(buf)
           b1 == buf \o placeholder
           b2 == b1 \o pw.cells
           plen == Len(b2) - pos - header_size
           hdr2 == [hdr EXCEPT !.payload_len = plen]
       IN patch(b2, pos, encode(hdr2))
  ELSE buf \o encode(hdr)

\* a write into the buffer of handle h, recorded with the cells it appended
write_to(M, h, hdr, pw) ==
  LET old == M.wr_buf[h]
      new == write(old, hdr, pw)
  IN [M EXCEPT !.wr_buf = [@ EXCEPT ![h] = new],
               !.ev = Append(@, EvBuf("write", h, SubSeq(new, Len(old) + 1, Len(new))))]

app_id_writer == Writer(<<Cell("str", middleman_app_identifier, 0)>>)

client_handshake_hdr(remote_side) ==
  Header("client_handshake", 0, 0, 0, this_node, remote_side,
         invalid_actor_id, invalid_actor_id)

write_client_handshake(M, h, remote_side) ==
  write_to(M, h, client_handshake_hdr(remote_side), app_id_writer)

--------------------------------------------------------------------------
(* Payload deserialization *)

\* the payload pointer of handle(): null, or the delivered buffer
NoPayload == [present |-> FALSE, cells |-> <<>>]
Payload(cells) == [present |-> TRUE, cells |-> cells]

\* bd(x) for the i-th field of the payload: fails on a short or mistyped buffer
bd_ok(cells, i, t) == Len(cells) >= i /\ cells[i].t = t

payload_valid(hdr, payload) ==
  payload.present /\ Len(payload.cells) = hdr.payload_len

--------------------------------------------------------------------------
(* instance::handle for stream handles.  Every operator below returns     *)
(* [m |-> the instance state, ret |-> the connection state returned].     *)

Ret(M, r) == [m |-> M, ret |-> r]

\* the err lambda without the erase
err_no_erase(M, h) == Ret(M, "close_connection")

\* the err lambda: erase the routes of the handle, purge_state per node
err(M, h) == Ret(tbl_erase_hdl(M, h), "close_connection")

notify(M, hook, hdr, payload) ==
  [M EXCEPT !.ev = Append(@, EvBuf(hook, nohdl, encode(hdr) \o payload.cells))]

callee(M, e) == [M EXCEPT !.ev = Append(@, e)]

finalize_handshake(M, nid, cells) ==
  callee(M, Ev("finalize_handshake", nid, nohdl, cells[2].s, cells[2].v, 0, 0, <<>>))

\* bs(hdr) or bs.apply_raw(size, data) on the write buffer of a path
append_to(M, path, cells) ==
  [M EXCEPT !.wr_buf = [@ EXCEPT ![path] = @ \o cells],
            !.ev = Append(@, EvBuf("write", path, cells))]

\* forwarding that drops the payload
forward_header_only(M, path, hdr, payload) ==
  LET M1 == append_to(M, path, encode(hdr))
      M3 == tbl_flush(M1, path)
  IN Ret(notify(M3, "message_forwarded", hdr, payload), "await_header")

\* a path exists: lines 90-98.  bs(hdr) writes into a growing vector and
\* reports no error there, so the return at line 94 is not taken.
forward_on_path(M, path, hdr, payload) ==
  LET M1 == append_to(M, path, encode(hdr))
      M2 == IF payload.present THEN append_to(M1, path, payload.cells) ELSE M1
      M3 == tbl_flush(M2, path)
  IN Ret(notify(M3, "message_forwarded", hdr, payload), "await_header")

\* a forwarding failure that closes the connection
forward_failed_closes(M, h, hdr, payload) ==
  err(notify(M, "message_forwarding_failed", hdr, payload), h)

\* no route to the destination: lines 99-113
forward_failed(M, h, hdr, payload) ==
  Ret(notify(M, "message_forwarding_failed", hdr, payload), "await_header")

\* needs forwarding: lines 87-115
forward(M, h, hdr, payload) ==
  LET path == tbl_lookup(M, hdr.dest_node)
  IN IF path # nohdl
     THEN forward_on_path(M, path, hdr, payload)
     ELSE forward_failed(M, h, hdr, payload)

\* a self connection closed without finalizing the handshake
self_connection_no_finalize(M, h, hdr, payload) == err(M, h)

\* close self connection after handshake is done: lines 142-147
self_connection(M, h, hdr, payload) ==
  err(finalize_handshake(M, hdr.source_node, payload.cells), h)

\* a duplicate connection that drops the route of the node, not of the handle
duplicate_connection_by_node(M, h, hdr, payload) ==
  Ret(tbl_erase_nid(finalize_handshake(M, hdr.source_node, payload.cells),
                    hdr.source_node),
      "close_connection")

\* close this connection if we already have a direct connection: lines 148-154
duplicate_connection(M, h, hdr, payload) ==
  err(finalize_handshake(M, hdr.source_node, payload.cells), h)

\* the two callbacks in the other order
new_direct_connection_swapped(M, h, hdr, payload) ==
  LET M1 == tbl_add(M, h, hdr.source_node)
      path == tbl_lookup(M1, hdr.source_node)
  IN IF path = nohdl THEN err(M1, h)
     ELSE LET M2 == write_client_handshake(M1, path, hdr.source_node)
              M3 == finalize_handshake(M2, hdr.source_node, payload.cells)
              M4 == callee(M3, EvNode("learned_new_node_directly", hdr.source_node))
          IN Ret(tbl_flush(M4, path), "await_header")

\* add direct route to this node, answer as client: lines 155-169
new_direct_connection(M, h, hdr, payload) ==
  LET M1 == tbl_add(M, h, hdr.source_node)
      path == tbl_lookup(M1, hdr.source_node)
  IN IF path = nohdl THEN err(M1, h)
     ELSE LET M2 == write_client_handshake(M1, path, hdr.source_node)
              M3 == callee(M2, EvNode("learned_new_node_directly", hdr.source_node))
              M4 == finalize_handshake(M3, hdr.source_node, payload.cells)
          IN Ret(tbl_flush(M4, path), "await_header")

\* the app identifier compared after the self and duplicate checks
server_handshake_late_app_id(M, h, hdr, payload) ==
  IF ~payload_valid(hdr, payload) THEN err(M, h)
  ELSE IF ~bd_ok(payload.cells, 1, "str") THEN err(M, h)
  ELSE IF ~bd_ok(payload.cells, 2, "aid_sigs") THEN err(M, h)
  ELSE IF hdr.source_node = this_node THEN self_connection(M, h, hdr, payload)
  ELSE IF tbl_lookup_hdl(M, hdr.source_node) # nohdl
       THEN duplicate_connection(M, h, hdr, payload)
  ELSE IF payload.cells[1].s # middleman_app_identifier THEN err(M, h)
  ELSE new_direct_connection(M, h, hdr, payload)

\* case message_type::server_handshake: lines 122-170
server_handshake(M, h, hdr, payload) ==
  IF ~payload_valid(hdr, payload) THEN err(M, h)
  ELSE IF ~bd_ok(payload.cells, 1, "str") THEN err(M, h)
  ELSE IF payload.cells[1].s # middleman_app_identifier THEN err(M, h)
  ELSE IF ~bd_ok(payload.cells, 2, "aid_sigs") THEN err(M, h)
  ELSE IF hdr.source_node = this_node THEN self_connection(M, h, hdr, payload)
  ELSE IF tbl_lookup_hdl(M, hdr.source_node) # nohdl
       THEN duplicate_connection(M, h, hdr, payload)
  ELSE new_direct_connection(M, h, hdr, payload)

\* a client handshake that does not look for an existing route
client_handshake_no_lookup(M, h, hdr, payload) ==
  IF ~payload_valid(hdr, payload) THEN err(M, h)
  ELSE IF ~bd_ok(payload.cells, 1, "str") THEN err(M, h)
  ELSE IF payload.cells[1].s # middleman_app_identifier THEN err(M, h)
  ELSE LET M1 == tbl_add(M, h, hdr.source_node)
       IN Ret(callee(M1, EvNode("learned_new_node_directly", hdr.source_node)),
              "await_header")

\* a client handshake that validates the payload before it looks for a route
client_handshake_check_first(M, h, hdr, payload) ==
  IF ~payload_valid(hdr, payload) THEN err(M, h)
  ELSE IF ~bd_ok(payload.cells, 1, "str") THEN err(M, h)
  ELSE IF payload.cells[1].s # middleman_app_identifier THEN err(M, h)
  ELSE IF tbl_lookup_hdl(M, hdr.source_node) # nohdl THEN Ret(M, "await_header")
  ELSE LET M1 == tbl_add(M, h, hdr.source_node)
       IN Ret(callee(M1, EvNode("learned_new_node_directly", hdr.source_node)),
              "await_header")

\* case message_type::client_handshake: lines 171-197
client_handshake(M, h, hdr, payload) ==
  IF tbl_lookup_hdl(M, hdr.source_node) # nohdl THEN Ret(M, "await_header")
  ELSE IF ~payload_valid(hdr, payload) THEN err(M, h)
  ELSE IF ~bd_ok(payload.cells, 1, "str") THEN err(M, h)
  ELSE IF payload.cells[1].s # middleman_app_identifier THEN err(M, h)
  ELSE LET M1 == tbl_add(M, h, hdr.source_node)
       IN Ret(callee(M1, EvNode("learned_new_node_directly", hdr.source_node)),
              "await_header")

\* a dispatch that delivers to dest_actor whatever the flags say
dispatch_message_by_actor(M, h, hdr, payload) ==
  IF ~payload_valid(hdr, payload) THEN err(M, h)
  ELSE LET named == has_named_receiver(hdr)
           k == IF named THEN 2 ELSE 1
       IN IF named /\ ~bd_ok(payload.cells, 1, "atom") THEN err(M, h)
          ELSE IF ~bd_ok(payload.cells, k, "stack_msg") THEN err(M, h)
          ELSE Ret(callee(M, Ev("deliver", hdr.source_node, nohdl, "",
                                hdr.source_actor, hdr.dest_actor, hdr.operation_data,
                                <<payload.cells[k]>>)),
                   "await_header")

\* case message_type::dispatch_message: lines 198-235
dispatch_message(M, h, hdr, payload) ==
  IF ~payload_valid(hdr, payload) THEN err(M, h)
  ELSE LET named == has_named_receiver(hdr)
           k == IF named THEN 2 ELSE 1
       IN IF named /\ ~bd_ok(payload.cells, 1, "atom") THEN err(M, h)
          ELSE IF ~bd_ok(payload.cells, k, "stack_msg") THEN err(M, h)
          ELSE IF named
          THEN Ret(callee(M, Ev("deliver", hdr.source_node, nohdl, payload.cells[1].s,
                                hdr.source_actor, invalid_actor_id, hdr.operation_data,
                                <<payload.cells[k]>>)),
                   "await_header")
          ELSE Ret(callee(M, Ev("deliver", hdr.source_node, nohdl, "",
                                hdr.source_actor, hdr.dest_actor, hdr.operation_data,
                                <<payload.cells[k]>>)),
                   "await_header")

\* case message_type::announce_proxy: lines 236-238
announce_proxy(M, h, hdr, payload) ==
  Ret(callee(M, Ev("proxy_announced", hdr.source_node, nohdl, "",
                   hdr.dest_actor, 0, 0, <<>>)),
      "await_header")

\* case message_type::kill_proxy: lines 239-249
kill_proxy(M, h, hdr, payload) ==
  IF ~payload_valid(hdr, payload) THEN err(M, h)
  ELSE IF ~bd_ok(payload.cells, 1, "error") THEN err(M, h)
  ELSE Ret(callee(M, Ev("kill_proxy", hdr.source_node, nohdl, "",
                        hdr.source_actor, 0, 0, <<payload.cells[1]>>)),
           "await_header")

\* case message_type::heartbeat: lines 250-254
heartbeat(M, h, hdr, payload) ==
  Ret(callee(M, EvNode("handle_heartbeat", hdr.source_node)), "await_header")

needs_forwarding(hdr) ==
  ~is_handshake(hdr) /\ ~is_heartbeat(hdr) /\ hdr.dest_node # this_node

\* lines 86-259: the frame is complete
process(M, h, hdr, payload) ==
  IF needs_forwarding(hdr) THEN forward(M, h, hdr, payload)
  ELSE CASE hdr.operation = "server_handshake" -> server_handshake(M, h, hdr, payload)
         [] hdr.operation = "client_handshake" -> client_handshake(M, h, hdr, payload)
         [] hdr.operation = "dispatch_message" -> dispatch_message(M, h, hdr, payload)
         [] hdr.operation = "announce_proxy" -> announce_proxy(M, h, hdr, payload)
         [] hdr.operation = "kill_proxy" -> kill_proxy(M, h, hdr, payload)
         [] hdr.operation = "heartbeat" -> heartbeat(M, h, hdr, payload)
         [] OTHER -> err(M, h)

\* the header the call leaves in hdr: unchanged in the payload phase
handle_hdr(buf, hdr0, is_payload) == IF is_payload THEN hdr0 ELSE decode(buf)

\* handle() that processes whatever buffer arrives in the payload phase
handle_no_size_check(M, h, buf, hdr0, is_payload) ==
  LET hdr == handle_hdr(buf, hdr0, is_payload)
  IN IF is_payload
     THEN process(M, h, hdr, Payload(buf))
     ELSE IF ~decode_ok(buf) \/ ~valid(hdr) THEN err(M, h)
          ELSE IF hdr.payload_len > 0 THEN Ret(M, "await_payload")
          ELSE process(M, h, hdr, NoPayload)

\* connection_state instance::handle(ctx, dm, hdr, is_payload): lines 53-260
handle(M, h, buf, hdr0, is_payload) ==
  LET hdr == handle_hdr(buf, hdr0, is_payload)
  IN IF is_payload
     THEN IF Len(buf) # hdr.payload_len THEN err(M, h)
          ELSE process(M, h, hdr, Payload(buf))
     ELSE IF ~decode_ok(buf) \/ ~valid(hdr) THEN err(M, h)
          ELSE IF hdr.payload_len > 0 THEN Ret(M, "await_payload")
          ELSE process(M, h, hdr, NoPayload)

\* a shutdown that erases the route without the callback
handle_node_shutdown_no_purge(M, affected_node) ==
  IF affected_node = none THEN M
  ELSE [tbl_erase_nid(M, affected_node) EXCEPT !.ev = M.ev]

\* void instance::handle_node_shutdown(affected_node): lines 504-514
handle_node_shutdown(M, affected_node) ==
  IF affected_node = none THEN M ELSE tbl_erase_nid(M, affected_node)

--------------------------------------------------------------------------
(* instance::handle for datagram handles: lines 262-493.  A step of the   *)
(* loop returns ret = "continue" (break out of the switch) or "false".    *)

NoPort == 0
Ports == {1}
NoActor == [present |-> FALSE, id |-> invalid_actor_id, sigs |-> ""]

\* the err lambda of the datagram handler: lines 265-272
dgram_err(M, h) == Ret(tbl_erase_hdl(M, h), "false")

\* the switch cases whose code is the stream handler's, with the datagram err
as_dgram(R, M, h) ==
  IF R.ret = "close_connection" THEN dgram_err(M, h) ELSE Ret(R.m, "continue")

\* write_udp_server_handshake(ctx, buf, remote_side, port): lines 697-735
udp_server_handshake_pa(pub, port) ==
  IF port # NoPort /\ pub[port].present THEN pub[port] ELSE NoActor

write_udp_server_handshake(M, h, pub, remote_side, port) ==
  LET pa == udp_server_handshake_pa(pub, port)
      writer == Writer(<<Cell("str", middleman_app_identifier, 0),
                         Cell("aid_sigs", pa.sigs, pa.id)>>)
      hdr == Header("udp_server_handshake", 0, 0, version, this_node, remote_side,
                    pa.id, invalid_actor_id)
  IN write_to(M, h, hdr, writer)

\* case message_type::udp_server_handshake: lines 319-369
udp_server_handshake(M, h, hdr, payload) ==
  IF ~payload_valid(hdr, payload) THEN dgram_err(M, h)
  ELSE IF ~bd_ok(payload.cells, 1, "str") THEN dgram_err(M, h)
  ELSE IF payload.cells[1].s # middleman_app_identifier THEN dgram_err(M, h)
  ELSE IF ~bd_ok(payload.cells, 2, "aid_sigs") THEN dgram_err(M, h)
  ELSE IF hdr.source_node = this_node
       THEN dgram_err(finalize_handshake(M, hdr.source_node, payload.cells), h)
  ELSE IF tbl_lookup_hdl(M, hdr.source_node) # nohdl
       THEN dgram_err(finalize_handshake(M, hdr.source_node, payload.cells), h)
  ELSE LET M1 == tbl_add(M, h, hdr.source_node)
           path == tbl_lookup(M1, hdr.source_node)
       IN IF path = nohdl THEN dgram_err(M1, h)
          ELSE LET M2 == write_client_handshake(M1, path, hdr.source_node)
                   M3 == callee(M2, EvNode("learned_new_node_directly", hdr.source_node))
                   M4 == finalize_handshake(M3, hdr.source_node, payload.cells)
               IN Ret(tbl_flush(M4, path), "continue")

\* case message_type::udp_client_handshake: lines 370-411
udp_client_handshake(M, h, hdr, payload, pub, port) ==
  IF tbl_lookup_hdl(M, hdr.source_node) # nohdl THEN Ret(M, "continue")
  ELSE IF ~payload_valid(hdr, payload) THEN dgram_err(M, h)
  ELSE IF ~bd_ok(payload.cells, 1, "str") THEN dgram_err(M, h)
  ELSE IF payload.cells[1].s # middleman_app_identifier THEN dgram_err(M, h)
  ELSE LET M1 == tbl_add(M, h, hdr.source_node)
           path == tbl_lookup(M1, hdr.source_node)
       IN IF path = nohdl THEN dgram_err(M1, h)
          ELSE LET M2 == write_udp_server_handshake(M1, path, pub, hdr.source_node, port)
               IN Ret(callee(M2, EvNode("learned_new_node_directly", hdr.source_node)),
                      "continue")

\* a datagram frame for another node that is forwarded as on a stream
dgram_process_forwards(M, h, hdr, payload, pub, port) ==
  IF needs_forwarding(hdr) THEN as_dgram(forward(M, h, hdr, payload), M, h)
  ELSE CASE hdr.operation = "udp_server_handshake" -> udp_server_handshake(M, h, hdr, payload)
         [] hdr.operation = "udp_client_handshake" ->
              udp_client_handshake(M, h, hdr, payload, pub, port)
         [] hdr.operation = "server_handshake" -> Ret(M, "continue")
         [] hdr.operation = "client_handshake" -> Ret(M, "continue")
         [] hdr.operation = "dispatch_message" ->
              as_dgram(dispatch_message(M, h, hdr, payload), M, h)
         [] hdr.operation = "announce_proxy" ->
              as_dgram(announce_proxy(M, h, hdr, payload), M, h)
         [] hdr.operation = "kill_proxy" -> as_dgram(kill_proxy(M, h, hdr, payload), M, h)
         [] hdr.operation = "heartbeat" -> as_dgram(heartbeat(M, h, hdr, payload), M, h)
         [] OTHER -> dgram_err(M, h)

\* lines 307-489: one complete frame of the packet
dgram_process(M, h, hdr, payload, pub, port) ==
  IF needs_forwarding(hdr) THEN dgram_err(M, h)
  ELSE CASE hdr.operation = "udp_server_handshake" -> udp_server_handshake(M, h, hdr, payload)
         [] hdr.operation = "udp_client_handshake" ->
              udp_client_handshake(M, h, hdr, payload, pub, port)
         [] hdr.operation = "server_handshake" -> Ret(M, "continue")
         [] hdr.operation = "client_handshake" -> Ret(M, "continue")
         [] hdr.operation = "dispatch_message" ->
              as_dgram(dispatch_message(M, h, hdr, payload), M, h)
         [] hdr.operation = "announce_proxy" ->
              as_dgram(announce_proxy(M, h, hdr, payload), M, h)
         [] hdr.operation = "kill_proxy" -> as_dgram(kill_proxy(M, h, hdr, payload), M, h)
         [] hdr.operation = "heartbeat" -> as_dgram(heartbeat(M, h, hdr, payload), M, h)
         [] OTHER -> dgram_err(M, h)

\* a loop that returns after the first frame
dgram_loop_first_only(M, h, mem, end, itr, pub, port) ==
  IF itr + header_size > Len(mem) THEN Ret(M, "undefined")
  ELSE LET hdr_buf == SubSeq(mem, itr + 1, itr + header_size)
           itr1 == itr + header_size
           hdr == decode(hdr_buf)
       IN IF ~decode_ok(hdr_buf) \/ ~valid(hdr) THEN dgram_err(M, h)
          ELSE IF itr1 + hdr.payload_len > Len(mem) THEN Ret(M, "undefined")
          ELSE LET pl_buf == SubSeq(mem, itr1 + 1, itr1 + hdr.payload_len)
                   payload == IF hdr.payload_len > 0 THEN Payload(pl_buf) ELSE NoPayload
                   R == dgram_process(M, h, hdr, payload, pub, port)
               IN IF R.ret # "continue" THEN R ELSE Ret(R.m, "true")

\* The do-while loop.  mem is the packet followed by the cells that lie
\* behind it in memory, end the size of the packet, itr the read position.
\* Both extractions copy [itr, itr + n) without looking at end: past the end
\* they read what lies behind the packet, and past the modelled memory the
\* behaviour is left open (ret = "undefined").
RECURSIVE dgram_loop(_, _, _, _, _, _, _)
dgram_loop(M, h, mem, end, itr, pub, port) ==
  IF itr + header_size > Len(mem) THEN Ret(M, "undefined")
  ELSE LET hdr_buf == SubSeq(mem, itr + 1, itr + header_size)
           itr1 == itr + header_size
           hdr == decode(hdr_buf)
       IN IF ~decode_ok(hdr_buf) \/ ~valid(hdr) THEN dgram_err(M, h)
          ELSE IF itr1 + hdr.payload_len > Len(mem) THEN Ret(M, "undefined")
          ELSE LET pl_buf == SubSeq(mem, itr1 + 1, itr1 + hdr.payload_len)
                   itr2 == itr1 + hdr.payload_len
                   payload == IF hdr.payload_len > 0 THEN Payload(pl_buf) ELSE NoPayload
                   R == dgram_process(M, h, hdr, payload, pub, port)
               IN IF R.ret # "continue" THEN R
                  ELSE IF itr2 # end THEN dgram_loop(R.m, h, mem, end, itr2, pub, port)
                  ELSE Ret(R.m, "true")

\* bool instance::handle(ctx, new_datagram_msg& dm, hdr)
dgram_handle(M, h, buf, behind, pub, port) ==
  dgram_loop(M, h, buf \o behind, Len(buf), 0, pub, port)

--------------------------------------------------------------------------
(* The outbound operations of the instance: lines 495-502 and 532-764 *)

\* a strong_actor_ptr: null, or an actor with its node and id
NoSender == [present |-> FALSE, node |-> none, id |-> invalid_actor_id]
ActorPtr(node, id) == [present |-> TRUE, node |-> node, id |-> id]

\* the arguments of the hooks message_sent and message_sending_failed
send_hook(M, hook, sender, next_hop, receiver, mid, msg) ==
  [M EXCEPT !.ev = Append(@, Ev(hook, next_hop, nohdl, receiver.node,
                                IF sender.present THEN sender.id ELSE invalid_actor_id,
                                receiver.id, mid, <<Cell("stack_msg", msg, 0)>>))]

dispatch_hdr(sender, receiver, mid) ==
  Header("dispatch_message", 0, 0, mid,
         IF sender.present THEN sender.node ELSE this_node, receiver.node,
         IF sender.present THEN sender.id ELSE invalid_actor_id, receiver.id)

\* dispatch that reports a sent message without flushing the buffer
dispatch_no_flush(M, sender, receiver, mid, msg) ==
  LET path == tbl_lookup(M, receiver.node)
  IN IF path = nohdl
     THEN Ret(send_hook(M, "message_sending_failed", sender, none, receiver, mid, msg),
              "false")
     ELSE LET writer == Writer(<<Cell("stack_msg", msg, 0)>>)
              M1 == write_to(M, path, dispatch_hdr(sender, receiver, mid), writer)
          IN Ret(send_hook(M1, "message_sent", sender, receiver.node, receiver, mid, msg),
                 "true")

\* dispatch that writes the frame although no route exists
dispatch_writes_anyway(M, sender, receiver, mid, msg) ==
  LET path == tbl_lookup(M, receiver.node)
  IN IF path = nohdl
     THEN LET writer == Writer(<<Cell("stack_msg", msg, 0)>>)
              M1 == write_to(M, "ha", dispatch_hdr(sender, receiver, mid), writer)
          IN Ret(send_hook(M1, "message_sending_failed", sender, none, receiver, mid, msg),
                 "false")
     ELSE LET writer == Writer(<<Cell("stack_msg", msg, 0)>>)
              M1 == write_to(M, path, dispatch_hdr(sender, receiver, mid), writer)
              M2 == tbl_flush(M1, path)
          IN Ret(send_hook(M2, "message_sent", sender, receiver.node, receiver, mid, msg),
                 "true")

\* bool instance::dispatch(ctx, sender, forwarding_stack, receiver, mid, msg):
\* lines 585-608.  The next hop of a direct route is the node itself.
dispatch(M, sender, receiver, mid, msg) ==
  LET path == tbl_lookup(M, receiver.node)
  IN IF path = nohdl
     THEN Ret(send_hook(M, "message_sending_failed", sender, none, receiver, mid, msg),
              "false")
     ELSE LET writer == Writer(<<Cell("stack_msg", msg, 0)>>)
              M1 == write_to(M, path, dispatch_hdr(sender, receiver, mid), writer)
              M2 == tbl_flush(M1, path)
          IN Ret(send_hook(M2, "message_sent", sender, receiver.node, receiver, mid, msg),
                 "true")

heartbeat_hdr(remote_side) ==
  Header("heartbeat", 0, 0, 0, this_node, remote_side, invalid_actor_id, invalid_actor_id)

\* write_heartbeat(ctx, buf, remote_side): lines 757-764
write_heartbeat(M, h, remote_side) == write_to(M, h, heartbeat_hdr(remote_side), NoWriter)

\* the loop of handle_heartbeat without the flush
RECURSIVE handle_heartbeat_no_flush(_, _)
handle_heartbeat_no_flush(M, order) ==
  IF order = <<>> THEN M
  ELSE LET h == Head(order)
       IN handle_heartbeat_no_flush(write_heartbeat(M, h, M.by_hdl[h]), Tail(order))

\* void instance::handle_heartbeat(ctx): lines 495-502.  order is the
\* sequence in which the loop visits the entries of direct_by_hdl_.
RECURSIVE handle_heartbeat(_, _)
handle_heartbeat(M, order) ==
  IF order = <<>> THEN M
  ELSE LET h == Head(order)
           M1 == write_heartbeat(M, h, M.by_hdl[h])
       IN handle_heartbeat(tbl_flush(M1, h), Tail(order))

\* the published actor of a port, or NoActor: lines 644-649
server_handshake_pa(pub, port) ==
  IF port # NoPort /\ pub[port].present THEN pub[port] ELSE NoActor

server_handshake_writer(pa) ==
  Writer(<<Cell("str", middleman_app_identifier, 0), Cell("aid_sigs", pa.sigs, pa.id)>>)

server_handshake_hdr(pa) ==
  Header("server_handshake", 0, 0, version, this_node, none, pa.id, invalid_actor_id)

\* write_server_handshake(ctx, out_buf, port): lines 639-670
write_server_handshake(M, h, pub, port) ==
  LET pa == server_handshake_pa(pub, port)
  IN write_to(M, h, server_handshake_hdr(pa), server_handshake_writer(pa))

\* a udp client handshake header with no version in it
udp_client_handshake_hdr_zero ==
  Header("udp_client_handshake", 0, 0, 0, this_node, none,
         invalid_actor_id, invalid_actor_id)

udp_client_handshake_hdr ==
  Header("udp_client_handshake", 0, 0, version, this_node, none,
         invalid_actor_id, invalid_actor_id)

\* write_udp_client_handshake(ctx, buf): lines 685-695
write_udp_client_handshake(M, h) == write_to(M, h, udp_client_handshake_hdr, app_id_writer)

announce_proxy_hdr(dest_node, aid) ==
  Header("announce_proxy", 0, 0, 0, this_node, dest_node, invalid_actor_id, aid)

\* write_announce_proxy(ctx, buf, dest_node, aid): lines 737-743
write_announce_proxy(M, h, dest_node, aid) ==
  write_to(M, h, announce_proxy_hdr(dest_node, aid), NoWriter)

kill_proxy_hdr(dest_node, aid) ==
  Header("kill_proxy", 0, 0, 0, this_node, dest_node, aid, invalid_actor_id)

kill_proxy_writer(rsn) == Writer(<<Cell("error", rsn, 0)>>)

\* write_kill_proxy(ctx, buf, dest_node, aid, rsn): lines 745-755
write_kill_proxy(M, h, dest_node, aid, rsn) ==
  write_to(M, h, kill_proxy_hdr(dest_node, aid), kill_proxy_writer(rsn))

\* add_published_actor(port, published_actor, published_interface):
\* lines 532-542, the entry of the port after the swap
add_published_actor(pub, port, aid, sigs) ==
  [pub EXCEPT ![port] = [present |-> TRUE, id |-> aid, sigs |-> sigs]]

\* the keys of published_actors_ (uint16_t port)
PublishedPorts == {0, 1, 2}

\* what a remove_published_actor call leaves: the map, the returned count
\* and the calls of the callback in order
Removed(pub, result, calls) == [pub |-> pub, result |-> result, calls |-> calls]

\* (*cb)(i->second.first, i->first), when cb is not null
removed_published_actor(cb, aid, port) ==
  IF cb THEN <<Ev("removed_published_actor", none, nohdl, "", aid, port, 0, <<>>)>>
  ELSE <<>>

\* remove_published_actor(port, cb): lines 544-554
remove_published_actor(pub, port, cb) ==
  IF ~pub[port].present THEN Removed(pub, 0, <<>>)
  ELSE Removed([pub EXCEPT ![port] = NoActor], 1,
               removed_published_actor(cb, pub[port].id, port))

\* the loop over all entries, in the order of the keys: lines 570-580
RECURSIVE remove_all_of(_, _, _, _)
remove_all_of(R, whom, cb, i) ==
  LET rest == {p \in PublishedPorts : p >= i /\ R.pub[p].present}
  IN IF rest = {} THEN R
     ELSE LET p == CHOOSE q \in rest : \A r \in rest : q <= r
          IN IF R.pub[p].id = whom
             THEN remove_all_of(Removed([R.pub EXCEPT ![p] = NoActor], R.result + 1,
                                        R.calls \o removed_published_actor(cb, R.pub[p].id, p)),
                                whom, cb, p + 1)
             ELSE remove_all_of(R, whom, cb, p + 1)

\* a removal by actor and port that does not compare the actor of the entry
remove_published_actor_any_actor(pub, whom, port, cb) ==
  IF port # 0
  THEN IF pub[port].present
       THEN Removed([pub EXCEPT ![port] = NoActor], 1,
                    removed_published_actor(cb, pub[port].id, port))
       ELSE Removed(pub, 0, <<>>)
  ELSE remove_all_of(Removed(pub, 0, <<>>), whom, cb, 0)

\* remove_published_actor(whom, port, cb): lines 556-583
remove_published_actor_of(pub, whom, port, cb) ==
  IF port # 0
  THEN IF pub[port].present /\ pub[port].id = whom
       THEN Removed([pub EXCEPT ![port] = NoActor], 1,
                    removed_published_actor(cb, pub[port].id, port))
       ELSE Removed(pub, 0, <<>>)
  ELSE remove_all_of(Removed(pub, 0, <<>>), whom, cb, 0)

--------------------------------------------------------------------------
(* Inputs: the frames the peers send *)

MaxFrames == 2       \* frames in one datagram packet
MaxUnflushed == 1    \* frames a datagram handle may hold unflushed when a packet arrives

AppId(str) == Cell("str", str, 0)
AidSigs == Cell("aid_sigs", "io", 7)
Atom == Cell("atom", "name", 0)
StackMsg == Cell("stack_msg", "msg", 0)
ErrCell == Cell("error", "reason", 0)
Junk == Cell("junk", "", 0)

ServerHandshakes ==
  {Header("server_handshake", 0, 2, version, n, none, invalid_actor_id, invalid_actor_id) :
     n \in NodeIds}
ClientHandshakes ==
  {Header("client_handshake", 0, 1, 0, n, IF n = this_node THEN "n1" ELSE this_node,
          invalid_actor_id, invalid_actor_id) : n \in NodeIds}
UdpHandshakes ==
  {Header("udp_server_handshake", 0, 2, version, "n1", none, invalid_actor_id, invalid_actor_id),
   Header("udp_client_handshake", 0, 1, version, "n1", none, invalid_actor_id, invalid_actor_id)}
Dispatches ==
  {Header("dispatch_message", 0, 1, 5, "n1", this_node, 3, 4),
   Header("dispatch_message", named_receiver_flag, 2, 5, "n1", this_node, 3, 4),
   Header("dispatch_message", 0, 1, 5, "n1", "n2", 3, 4),
   Header("dispatch_message", 0, 0, 5, "n1", this_node, 3, 4),
   Header("dispatch_message", 0, 0, 5, "n1", "n2", 3, 4)}
Proxies ==
  {Header("announce_proxy", 0, 0, 0, "n1", this_node, invalid_actor_id, 4),
   Header("announce_proxy", 0, 0, 0, "n1", "n2", invalid_actor_id, 4),
   Header("kill_proxy", 0, 1, 0, "n1", this_node, 3, invalid_actor_id),
   Header("kill_proxy", 0, 0, 0, "n1", this_node, 3, invalid_actor_id)}
Heartbeats ==
  {Header("heartbeat", 0, 0, 0, "n1", this_node, invalid_actor_id, invalid_actor_id),
   Header("heartbeat", 0, 0, 0, "n1", "n2", invalid_actor_id, invalid_actor_id)}
InvalidHeaders ==
  {Header("server_handshake", 0, 0, version, "n1", none, invalid_actor_id, invalid_actor_id),
   Header("heartbeat", 0, 1, 0, "n1", this_node, invalid_actor_id, invalid_actor_id),
   Header("announce_proxy", 0, 0, 0, "n1", this_node, invalid_actor_id, invalid_actor_id),
   Header("bogus", 0, 0, 0, "n1", this_node, invalid_actor_id, invalid_actor_id)}

StreamHeaders ==
  ServerHandshakes \cup ClientHandshakes \cup UdpHandshakes \cup Dispatches
    \cup Proxies \cup Heartbeats \cup InvalidHeaders

\* a header-sized buffer that does not deserialize
BadBuf == [i \in 1..header_size |-> Junk]

StreamBufs == {encode(hdr) : hdr \in StreamHeaders} \cup {BadBuf}

\* the headers of the stream handshakes
HandshakeBufs == {encode(hdr) : hdr \in ServerHandshakes \cup ClientHandshakes}

\* the payloads a peer sends after a header
PayloadsFor(hdr) ==
  CASE hdr.operation \in {"server_handshake", "udp_server_handshake"} ->
         {<<AppId("mine"), AidSigs>>, <<AppId("other"), AidSigs>>,
          <<AppId("mine"), Junk>>, <<Junk, AidSigs>>, <<AppId("mine")>>}
    [] hdr.operation \in {"client_handshake", "udp_client_handshake"} ->
         {<<AppId("mine")>>, <<AppId("other")>>, <<Junk>>, <<AppId("mine"), AidSigs>>}
    [] hdr.operation = "dispatch_message" ->
         {<<StackMsg>>, <<Atom, StackMsg>>, <<Junk>>, <<Atom, Junk>>}
    [] hdr.operation = "kill_proxy" -> {<<ErrCell>>, <<Junk>>}
    [] OTHER -> {<<Junk>>}

\* complete datagram frames: the two handshakes and a frame for another node
HandshakeFrames ==
  { encode(Header("udp_client_handshake", 0, 1, version, "n2", none,
                  invalid_actor_id, invalid_actor_id)) \o <<AppId("mine")>>,
    encode(Header("udp_server_handshake", 0, 2, version, "n1", none,
                  invalid_actor_id, invalid_actor_id)) \o <<AppId("mine"), AidSigs>>,
    encode(Header("dispatch_message", 0, 1, 5, "n1", "n2", 3, 4)) \o <<StackMsg>> }

\* the packets of k frames drawn from a set of frames
RECURSIVE PacketsOf(_, _)
PacketsOf(frames, k) ==
  IF k = 0 THEN {<<>>}
  ELSE {f \o p : f \in frames, p \in PacketsOf(frames, k - 1)}

Packets(frames) == UNION {PacketsOf(frames, k) : k \in 1..MaxFrames}

HandshakePackets == Packets(HandshakeFrames)

\* the same frames, a heartbeat and a message for an actor of this node
DatagramFrames ==
  HandshakeFrames \cup
    { encode(Header("heartbeat", 0, 0, 0, "n1", this_node,
                    invalid_actor_id, invalid_actor_id)),
      encode(Header("dispatch_message", 0, 1, 5, "n1", this_node, 3, 4)) \o <<StackMsg>> }

DatagramPackets == Packets(DatagramFrames)

MaxWritten == 2      \* frames the broker writes into a buffer before it flushes

\* the actors the local system sends from and to
Senders == {NoSender, ActorPtr(this_node, 3), ActorPtr("n2", 3)}
Receivers == {ActorPtr(n, 4) : n \in RemoteNodes}
Mids == {5}

\* the orders in which a loop can visit the handles of a set
Orders(S) ==
  {o \in [1..Cardinality(S) -> S] : \A i, j \in 1..Cardinality(S) : i # j => o[i] # o[j]}

--------------------------------------------------------------------------
(* The state machine *)

Last(op, hdl, is_payload, hdr, payload, ret) ==
  [op |-> op, hdl |-> hdl, is_payload |-> is_payload, hdr |-> hdr,
   payload |-> payload, ret |-> ret]

\* the instance's state at the start of a call
M0 == [by_hdl |-> direct_by_hdl, by_nid |-> direct_by_nid, wr_buf |-> wr_buf, ev |-> <<>>]

\* the instance's state at the end of a call
Commit(M) ==
  /\ direct_by_hdl' = M.by_hdl
  /\ direct_by_nid' = M.by_nid
  /\ wr_buf' = M.wr_buf
  /\ ev' = M.ev

Init ==
  /\ direct_by_hdl = [h \in Handles |-> none]
  /\ direct_by_nid = [n \in NodeIds |-> nohdl]
  /\ wr_buf = [h \in Handles |-> <<>>]
  /\ published_actors = [p \in PublishedPorts |-> NoActor]
  /\ cstate = [h \in StreamHandles |-> "await_header"]
  /\ hdrs = [h \in StreamHandles |-> NoHdr]
  /\ last = Last("init", nohdl, FALSE, NoHdr, <<>>, "")
  /\ ev = <<>>

\* the broker delivers the bytes it read on a stream handle and keeps the
\* returned connection state and the header for the next read
Stream(h) ==
  /\ cstate[h] # "close_connection"
  /\ LET is_payload == cstate[h] = "await_payload"
     IN \E buf \in (IF is_payload THEN PayloadsFor(hdrs[h]) ELSE StreamBufs) :
          \E R \in {handle(M0, h, buf, hdrs[h], is_payload)} :
            LET hdr == handle_hdr(buf, hdrs[h], is_payload)
            IN /\ Commit(R.m)
               /\ cstate' = [cstate EXCEPT ![h] = R.ret]
               /\ hdrs' = [hdrs EXCEPT ![h] = IF R.ret = "await_payload" THEN hdr ELSE NoHdr]
               /\ last' = Last("stream", h, is_payload, hdr,
                               IF is_payload THEN buf ELSE <<>>, R.ret)
               /\ UNCHANGED published_actors

\* the same step with the headers drawn from a given set of buffers
StreamFrom(h, bufs) ==
  /\ cstate[h] # "close_connection"
  /\ LET is_payload == cstate[h] = "await_payload"
     IN \E buf \in (IF is_payload THEN PayloadsFor(hdrs[h]) ELSE bufs) :
          \E R \in {handle(M0, h, buf, hdrs[h], is_payload)} :
            LET hdr == handle_hdr(buf, hdrs[h], is_payload)
            IN /\ Commit(R.m)
               /\ cstate' = [cstate EXCEPT ![h] = R.ret]
               /\ hdrs' = [hdrs EXCEPT ![h] = IF R.ret = "await_payload" THEN hdr ELSE NoHdr]
               /\ last' = Last("stream", h, is_payload, hdr,
                               IF is_payload THEN buf ELSE <<>>, R.ret)
               /\ UNCHANGED published_actors

\* the broker accepts a new connection in place of a closed one
Connect(h) ==
  /\ cstate[h] = "close_connection"
  /\ cstate' = [cstate EXCEPT ![h] = "await_header"]
  /\ last' = Last("connect", h, FALSE, NoHdr, <<>>, "")
  /\ ev' = <<>>
  /\ UNCHANGED <<direct_by_hdl, direct_by_nid, wr_buf, published_actors, hdrs>>

\* the broker delivers one datagram packet
Datagram(h, packets) ==
  /\ Len(wr_buf[h]) < MaxUnflushed * (header_size + 2)
  /\ \E buf \in packets, port \in {NoPort} \cup Ports :
       \E R \in {dgram_handle(M0, h, buf, <<>>, published_actors, port)} :
         /\ Commit(R.m)
         /\ last' = Last("datagram", h, FALSE, NoHdr, buf, R.ret)
         /\ UNCHANGED <<published_actors, cstate, hdrs>>

\* the broker delivers a packet that ends inside a frame: after complete
\* frames out of `frames` (or none) comes a frame cut after k cells.  The loop
\* copies [itr, itr + n) without comparing with the end of the packet, so what
\* it reads there is what the memory behind the packet holds: nothing the
\* model knows of, the rest of the frame, or cells that do not parse.
DatagramCut(h, frames) ==
  /\ Len(wr_buf[h]) < MaxUnflushed * (header_size + 2)
  /\ \E g \in {<<>>} \cup frames, f \in frames, port \in {NoPort} \cup Ports :
       \E k \in 1..(Len(f) - 1) :
         \E behind \in {<<>>, SubSeq(f, k + 1, Len(f)), <<Junk>>} :
           \E R \in {dgram_handle(M0, h, g \o SubSeq(f, 1, k), behind,
                                  published_actors, port)} :
             /\ Commit(R.m)
             /\ last' = Last("datagram", h, FALSE, NoHdr, g \o SubSeq(f, 1, k), R.ret)
             /\ UNCHANGED <<published_actors, cstate, hdrs>>

\* the broker reports a lost node
Shutdown(n) ==
  /\ Commit(handle_node_shutdown(M0, n))
  /\ last' = Last("shutdown", n, FALSE, NoHdr, <<>>, "")
  /\ UNCHANGED <<published_actors, cstate, hdrs>>

\* void instance::flush(path), called by the broker with a looked-up path
Flush(n) ==
  /\ tbl_lookup(M0, n) # nohdl
  /\ Commit(tbl_flush(M0, tbl_lookup(M0, n)))
  /\ last' = Last("flush", n, FALSE, NoHdr, <<>>, "")
  /\ UNCHANGED <<published_actors, cstate, hdrs>>

\* the local system sends a message to a remote actor
Dispatch ==
  \E sender \in Senders, receiver \in Receivers, mid \in Mids :
    \E R \in {dispatch(M0, sender, receiver, mid, "msg")} :
       /\ Commit(R.m)
       /\ last' = Last("dispatch", receiver.node, FALSE,
                       dispatch_hdr(sender, receiver, mid), <<StackMsg>>, R.ret)
       /\ UNCHANGED <<published_actors, cstate, hdrs>>

\* the broker's heartbeat timer fires
Heartbeat ==
  \E order \in Orders({h \in Handles : direct_by_hdl[h] # none}) :
    /\ Commit(handle_heartbeat(M0, order))
    /\ last' = Last("heartbeat", nohdl, FALSE, NoHdr, <<>>, "")
    /\ UNCHANGED <<published_actors, cstate, hdrs>>

\* the broker publishes an actor at a port
AddPublishedActor(ports, actors) ==
  \E port \in ports, aid \in actors :
    /\ published_actors' = add_published_actor(published_actors, port, aid, "io")
    /\ last' = Last("add_published_actor", nohdl, FALSE, NoHdr, <<>>, "")
    /\ ev' = <<Ev("actor_published", none, nohdl, "io", aid, port, 0, <<>>)>>
    /\ UNCHANGED <<direct_by_hdl, direct_by_nid, wr_buf, cstate, hdrs>>

\* the actors the local system publishes and unpublishes
PublishedActors == {7, 8}

\* the arguments of a remove_published_actor call, as recorded in last
RemoveArgs(port) == <<Cell("u16", "", port)>>
RemoveArgsOf(whom, port) == <<Cell("actor_addr", "", whom), Cell("u16", "", port)>>

\* the outcome of a remove_published_actor call; cb is recorded as is_payload
RemovedBy(R, op, cb, args) ==
  /\ published_actors' = R.pub
  /\ ev' = R.calls
  /\ last' = Last(op, nohdl, cb, NoHdr, args, R.result)
  /\ UNCHANGED <<direct_by_hdl, direct_by_nid, wr_buf, cstate, hdrs>>

\* the broker unpublishes whatever is published at a port
RemovePublishedActor ==
  \E port \in PublishedPorts, cb \in BOOLEAN :
    RemovedBy(remove_published_actor(published_actors, port, cb),
              "remove_published_actor", cb, RemoveArgs(port))

\* the broker unpublishes an actor at a port, or at all ports (port = 0)
RemovePublishedActorOf ==
  \E whom \in PublishedActors, port \in PublishedPorts, cb \in BOOLEAN :
    RemovedBy(remove_published_actor_of(published_actors, whom, port, cb),
              "remove_published_actor_of", cb, RemoveArgsOf(whom, port))

\* the broker may write another frame into the buffer of h
MayWrite(h) == Len(wr_buf[h]) < MaxWritten * header_size

\* a call of one of the frame writers on the buffer of h, recorded with the
\* header and the payload cells handed to write()
Written(M, op, h, hdr, pw) ==
  /\ Commit(M)
  /\ last' = Last(op, h, pw.present, hdr, pw.cells, "")
  /\ UNCHANGED <<published_actors, cstate, hdrs>>

WriteServerHandshake(h) ==
  /\ MayWrite(h)
  /\ \E port \in {NoPort} \cup Ports :
       LET pa == server_handshake_pa(published_actors, port)
       IN Written(write_server_handshake(M0, h, published_actors, port),
                  "write_server_handshake", h,
                  server_handshake_hdr(pa), server_handshake_writer(pa))

WriteClientHandshake(h) ==
  /\ MayWrite(h)
  /\ \E n \in RemoteNodes :
       Written(write_client_handshake(M0, h, n), "write_client_handshake", h,
               client_handshake_hdr(n), app_id_writer)

WriteUdpClientHandshake(h) ==
  /\ MayWrite(h)
  /\ Written(write_udp_client_handshake(M0, h), "write_udp_client_handshake", h,
             udp_client_handshake_hdr, app_id_writer)

WriteUdpServerHandshake(h) ==
  /\ MayWrite(h)
  /\ \E n \in RemoteNodes, port \in {NoPort} \cup Ports :
       LET pa == udp_server_handshake_pa(published_actors, port)
       IN Written(write_udp_server_handshake(M0, h, published_actors, n, port),
                  "write_udp_server_handshake", h,
                  Header("udp_server_handshake", 0, 0, version, this_node, n,
                         pa.id, invalid_actor_id),
                  server_handshake_writer(pa))

WriteAnnounceProxy(h) ==
  /\ MayWrite(h)
  /\ Written(write_announce_proxy(M0, h, "n1", 4), "write_announce_proxy", h,
             announce_proxy_hdr("n1", 4), NoWriter)

WriteKillProxy(h) ==
  /\ MayWrite(h)
  /\ Written(write_kill_proxy(M0, h, "n1", 3, "reason"), "write_kill_proxy", h,
             kill_proxy_hdr("n1", 3), kill_proxy_writer("reason"))

WriteHeartbeat(h) ==
  /\ MayWrite(h)
  /\ Written(write_heartbeat(M0, h, "n1"), "write_heartbeat", h,
             heartbeat_hdr("n1"), NoWriter)

\* two stream connections and the broker's shutdown notices
Next ==
  \/ \E h \in StreamHandles : Stream(h)
  \/ \E h \in StreamHandles : Connect(h)
  \/ \E n \in NodeIds \cup {none} : Shutdown(n)

Spec == Init /\ [][Next]_vars

\* a stream connection, a datagram handle and the broker's shutdown notices
\* and flushes
NextD ==
  \/ Stream("ha")
  \/ Connect("ha")
  \/ \E h \in DgramHandles : Datagram(h, HandshakePackets)
  \/ \E n \in NodeIds \cup {none} : Shutdown(n)
  \/ \E n \in NodeIds : Flush(n)

SpecD == Init /\ [][NextD]_vars

\* a datagram handle alone, with the broker's shutdown notices and flushes
NextF ==
  \/ \E h \in DgramHandles : Datagram(h, DatagramPackets)
  \/ \E n \in NodeIds \cup {none} : Shutdown(n)
  \/ \E n \in NodeIds : Flush(n)

SpecF == Init /\ [][NextF]_vars

\* a datagram handle that receives packets cut inside a frame
NextP ==
  \/ \E h \in DgramHandles : DatagramCut(h, HandshakeFrames)
  \/ \E n \in NodeIds \cup {none} : Shutdown(n)
  \/ \E n \in NodeIds : Flush(n)

SpecP == Init /\ [][NextP]_vars

\* two stream connections that exchange handshakes, the messages the local
\* system sends and the heartbeat timer
NextO ==
  \/ \E h \in StreamHandles : StreamFrom(h, HandshakeBufs)
  \/ \E h \in StreamHandles : Connect(h)
  \/ \E n \in NodeIds \cup {none} : Shutdown(n)
  \/ Dispatch
  \/ Heartbeat

SpecO == Init /\ [][NextO]_vars

\* the frames the broker writes into the buffer of a connection
NextW ==
  \/ AddPublishedActor(Ports, {7})
  \/ WriteServerHandshake("ha")
  \/ WriteClientHandshake("ha")
  \/ WriteUdpClientHandshake("ha")
  \/ WriteUdpServerHandshake("ha")
  \/ WriteAnnounceProxy("ha")
  \/ WriteKillProxy("ha")
  \/ WriteHeartbeat("ha")

SpecW == Init /\ [][NextW]_vars

\* the actors the broker publishes and unpublishes, and the server handshake
\* that reads the published actor of a port
NextA ==
  \/ AddPublishedActor(PublishedPorts, PublishedActors)
  \/ RemovePublishedActor
  \/ RemovePublishedActorOf
  \/ WriteServerHandshake("ha")

SpecA == Init /\ [][NextA]_vars

--------------------------------------------------------------------------
(* Properties *)

\* a server handshake payload that decodes and carries the local app identifier
GoodServerPayload(hdr, p) ==
  /\ Len(p) = hdr.payload_len
  /\ bd_ok(p, 1, "str")
  /\ p[1].s = middleman_app_identifier
  /\ bd_ok(p, 2, "aid_sigs")

\* a stream call that processed a server handshake with such a payload
GoodServerHandshake(l) ==
  /\ l.op = "stream"
  /\ l.is_payload
  /\ l.hdr.operation = "server_handshake"
  /\ GoodServerPayload(l.hdr, l.payload)

\* a stream call that processed a complete frame that needs forwarding
ForwardedFrame(l) ==
  /\ l.op = "stream"
  /\ valid(l.hdr)
  /\ IF l.is_payload THEN Len(l.payload) = l.hdr.payload_len ELSE l.hdr.payload_len = 0
  /\ ~is_handshake(l.hdr)
  /\ ~is_heartbeat(l.hdr)
  /\ l.hdr.dest_node # this_node

RouteOf(n) == IF n \in NodeIds THEN direct_by_nid[n] ELSE nohdl

TableUnchanged == direct_by_hdl' = direct_by_hdl /\ direct_by_nid' = direct_by_nid

\* C1: this_node never has an entry in the routing table, whatever frames
\* the stream handles receive.
C1_this_node_never_routed ==
  /\ direct_by_nid[this_node] = nohdl
  /\ \A h \in Handles : direct_by_hdl[h] # this_node

\* C2: the direct routes are a one-to-one correspondence: n maps to h in
\* direct_by_nid iff h maps to n in direct_by_hdl, and no two nodes share a
\* handle, under every interleaving of stream frames, datagram packets and
\* node shutdowns.
C2_direct_routes_one_to_one ==
  /\ \A n \in NodeIds, h \in Handles : (direct_by_nid[n] = h) <=> (direct_by_hdl[h] = n)
  /\ \A n1, n2 \in NodeIds :
       (n1 # n2 /\ direct_by_nid[n1] # nohdl) => direct_by_nid[n1] # direct_by_nid[n2]

\* a handshake of a new node was accepted on a handle bound to another node
C2_rebound_handle_reached ==
  /\ last.op \in {"stream", "datagram"}
  /\ \E i \in 1..Len(ev) :
       /\ ev[i].e = "add"
       /\ ev[i].s \notin {none, ev[i].node}
       /\ direct_by_hdl[ev[i].hdl] = ev[i].node

\* C3: when stream handle() returns close_connection, no routing entry
\* references the handle afterwards, and purge_state was called exactly once
\* for the node that was bound to the handle and for no other node.
C3_close_erases_and_purges ==
  [][ (last'.op = "stream" /\ last'.ret = "close_connection") =>
        LET h == last'.hdl
        IN /\ direct_by_hdl'[h] = none
           /\ \A n \in NodeIds : direct_by_nid'[n] # h
           /\ \A n \in NodeIds :
                CountNode(ev', "purge_state", n) = IF direct_by_hdl[h] = n THEN 1 ELSE 0
    ]_vars

\* a connection was closed while its handle was bound to a node
C3_close_with_purge_reached ==
  last.op = "stream" /\ last.ret = "close_connection" /\ Has(ev, "purge_state")

\* C4: a server handshake with the local app identifier from a node n other
\* than this_node that has no direct route adds the route (h, n), writes a
\* client handshake frame into the buffer of h, calls learned_new_node_directly(n)
\* and then finalize_handshake(n, aid, sigs), flushes h after both, and
\* returns await_header.
C4_server_handshake_accepts_new_node ==
  [][ (/\ GoodServerHandshake(last')
       /\ last'.hdr.source_node \in NodeIds \ {this_node}
       /\ direct_by_nid[last'.hdr.source_node] = nohdl) =>
        LET h == last'.hdl
            n == last'.hdr.source_node
            p == last'.payload
            reply == Header("client_handshake", 0, 1, 0, this_node, n,
                            invalid_actor_id, invalid_actor_id)
        IN /\ last'.ret = "await_header"
           /\ direct_by_hdl'[h] = n
           /\ direct_by_nid'[n] = h
           /\ Names(ev') = <<"add", "write", "learned_new_node_directly",
                             "finalize_handshake", "flush">>
           /\ ev'[2].hdl = h
           /\ ev'[2].buf = encode(reply) \o <<AppId(middleman_app_identifier)>>
           /\ ev'[3].node = n
           /\ ev'[4].node = n /\ ev'[4].a = p[2].v /\ ev'[4].s = p[2].s
           /\ ev'[5].hdl = h
           /\ ev'[5].buf = wr_buf[h] \o ev'[2].buf
    ]_vars

\* a server handshake of a new node was accepted
C4_new_node_accepted_reached ==
  /\ GoodServerHandshake(last)
  /\ last.ret = "await_header"
  /\ Has(ev, "learned_new_node_directly")
  /\ direct_by_nid[last.hdr.source_node] = last.hdl

\* C5: a server handshake whose app identifier differs from the local one
\* adds no route, calls neither finalize_handshake nor
\* learned_new_node_directly, returns close_connection, and calls no
\* purge_state when the handle had no route.
C5_app_id_mismatch_closes ==
  [][ (/\ last'.op = "stream"
       /\ last'.is_payload
       /\ last'.hdr.operation = "server_handshake"
       /\ bd_ok(last'.payload, 1, "str")
       /\ last'.payload[1].s # middleman_app_identifier) =>
        /\ last'.ret = "close_connection"
        /\ ~Has(ev', "add")
        /\ \A n \in NodeIds : direct_by_nid'[n] \in {nohdl, direct_by_nid[n]}
        /\ \A h \in Handles : direct_by_hdl'[h] \in {none, direct_by_hdl[h]}
        /\ ~Has(ev', "finalize_handshake")
        /\ ~Has(ev', "learned_new_node_directly")
        /\ direct_by_hdl[last'.hdl] = none => ~Has(ev', "purge_state")
    ]_vars

\* a foreign app identifier arrived from a node that has a direct route
C5_mismatch_from_routed_node_reached ==
  /\ last.op = "stream"
  /\ last.is_payload
  /\ last.hdr.operation = "server_handshake"
  /\ bd_ok(last.payload, 1, "str")
  /\ last.payload[1].s # middleman_app_identifier
  /\ direct_by_nid[last.hdr.source_node] # nohdl

\* C6 as stated: a server handshake with the local app identifier whose
\* source is this_node calls finalize_handshake(this_node, aid, sigs) once,
\* returns close_connection and leaves the routing table unchanged in every
\* state it arrives in.
C6_self_handshake_leaves_table ==
  [][ (GoodServerHandshake(last') /\ last'.hdr.source_node = this_node) =>
        /\ last'.ret = "close_connection"
        /\ Count(ev', "finalize_handshake") = 1
        /\ TableUnchanged
    ]_vars

\* C6 amended: such a handshake calls finalize_handshake(this_node, aid, sigs)
\* once, returns close_connection, and changes the routing table only by
\* erasing the route bound to the receiving handle, with purge_state for its
\* node; the table is unchanged when the receiving handle had no route.
C6_self_handshake_erases_own_handle_only ==
  [][ (GoodServerHandshake(last') /\ last'.hdr.source_node = this_node) =>
        LET h == last'.hdl
            p == last'.payload
        IN /\ last'.ret = "close_connection"
           /\ Count(ev', "finalize_handshake") = 1
           /\ \E i \in 1..Len(ev') :
                /\ ev'[i].e = "finalize_handshake"
                /\ ev'[i].node = this_node
                /\ ev'[i].a = p[2].v
                /\ ev'[i].s = p[2].s
           /\ direct_by_hdl' = [direct_by_hdl EXCEPT ![h] = none]
           /\ direct_by_nid' = [n \in NodeIds |->
                                  IF direct_by_nid[n] = h THEN nohdl ELSE direct_by_nid[n]]
           /\ \A n \in NodeIds :
                CountNode(ev', "purge_state", n) = IF direct_by_hdl[h] = n THEN 1 ELSE 0
           /\ direct_by_hdl[h] = none => TableUnchanged
    ]_vars

\* a self handshake arrived on a handle that was bound to a node
C6_self_handshake_on_bound_handle_reached ==
  /\ GoodServerHandshake(last)
  /\ last.hdr.source_node = this_node
  /\ Has(ev, "finalize_handshake")
  /\ Has(ev, "purge_state")

\* C7: when a node has a direct route on handle h_a and its server handshake
\* with the local app identifier arrives on another handle h_b,
\* finalize_handshake is called for the node, handle() returns
\* close_connection, the route on h_a is unchanged and purge_state is not
\* called for the node.
C7_duplicate_connection_keeps_route ==
  [][ (/\ GoodServerHandshake(last')
       /\ last'.hdr.source_node \in NodeIds
       /\ direct_by_nid[last'.hdr.source_node] \notin {nohdl, last'.hdl}) =>
        LET n == last'.hdr.source_node
            h_a == direct_by_nid[n]
        IN /\ last'.ret = "close_connection"
           /\ CountNode(ev', "finalize_handshake", n) = 1
           /\ direct_by_nid'[n] = h_a
           /\ direct_by_hdl'[h_a] = n
           /\ CountNode(ev', "purge_state", n) = 0
    ]_vars

\* a duplicate connection of a remote node was closed
C7_duplicate_closed_reached ==
  /\ GoodServerHandshake(last)
  /\ last.hdr.source_node \in RemoteNodes
  /\ last.ret = "close_connection"
  /\ Has(ev, "finalize_handshake")
  /\ direct_by_nid[last.hdr.source_node] \notin {nohdl, last.hdl}

\* C8: no node has more than one direct entry, and every tbl_.add(handle, n)
\* is executed in a state where lookup_hdl(n) is empty.
C8_at_most_one_direct_route ==
  /\ \A n \in NodeIds : Cardinality({h \in Handles : direct_by_hdl[h] = n}) <= 1
  /\ \A i \in 1..Len(ev) : ev[i].e = "add" => ev[i].a = 0

\* a datagram handshake added a route while another node had one
C8_second_route_added_reached ==
  /\ last.op = "datagram"
  /\ Has(ev, "add")
  /\ \A n \in RemoteNodes : direct_by_nid[n] # nohdl

C10_no_route_fails_softly ==
  [][ (ForwardedFrame(last') /\ RouteOf(last'.hdr.dest_node) = nohdl) =>
        /\ last'.ret = "await_header"
        /\ Names(ev') = <<"message_forwarding_failed">>
        /\ wr_buf' = wr_buf
        /\ TableUnchanged
    ]_vars

\* a frame for an unreachable node arrived with its payload
C10_no_route_reached ==
  /\ ForwardedFrame(last)
  /\ last.is_payload
  /\ last.ret = "await_header"
  /\ Has(ev, "message_forwarding_failed")

\* the frame a write event appended, decoded as a reader decodes it
FrameHdr(cells) == decode(SubSeq(cells, 1, header_size))
FramePayload(cells) == SubSeq(cells, header_size + 1, Len(cells))
FrameOk(cells) ==
  /\ Len(cells) >= header_size
  /\ decode_ok(SubSeq(cells, 1, header_size))
  /\ FrameHdr(cells).payload_len = Len(cells) - header_size

\* C11: dispatch to a receiver whose node has no route returns false, emits
\* message_sending_failed and nothing else, writes no cell to any buffer,
\* flushes nothing and leaves the routing table unchanged.
C11_dispatch_without_route_fails ==
  [][ (last'.op = "dispatch" /\ RouteOf(last'.hdl) = nohdl) =>
        /\ last'.ret = "false"
        /\ Names(ev') = <<"message_sending_failed">>
        /\ wr_buf' = wr_buf
        /\ TableUnchanged
    ]_vars

\* a dispatch failed while another node had a route
C11_dispatch_without_route_reached ==
  /\ last.op = "dispatch"
  /\ last.ret = "false"
  /\ direct_by_nid[last.hdl] = nohdl
  /\ \E n \in RemoteNodes : direct_by_nid[n] # nohdl
  /\ Has(ev, "message_sending_failed")

\* C12: dispatch to a receiver whose node has a route writes exactly one
\* dispatch_message frame, with operation_data = mid and dest_node = the
\* receiver's node, behind the content of the path's buffer, then flushes
\* that path, then emits message_sent with the next-hop node, and returns
\* true; no other buffer and no route changes.
C12_dispatch_writes_flushes_notifies ==
  [][ (last'.op = "dispatch" /\ RouteOf(last'.hdl) # nohdl) =>
        LET path == RouteOf(last'.hdl)
        IN /\ last'.ret = "true"
           /\ Names(ev') = <<"write", "flush", "message_sent">>
           /\ ev'[1].hdl = path
           /\ FrameOk(ev'[1].buf)
           /\ FrameHdr(ev'[1].buf).operation = "dispatch_message"
           /\ FrameHdr(ev'[1].buf).operation_data \in Mids
           /\ FrameHdr(ev'[1].buf).dest_node = last'.hdl
           /\ FramePayload(ev'[1].buf) = last'.payload
           /\ ev'[2].hdl = path
           /\ ev'[2].buf = wr_buf[path] \o ev'[1].buf
           /\ ev'[3].node = direct_by_hdl[path]
           /\ ev'[3].c \in Mids
           /\ \A h \in Handles : wr_buf'[h] = IF h = path THEN <<>> ELSE wr_buf[h]
           /\ TableUnchanged
    ]_vars

\* a message was sent to a node with a route
C12_dispatch_with_route_reached ==
  /\ last.op = "dispatch"
  /\ last.ret = "true"
  /\ direct_by_nid[last.hdl] # nohdl
  /\ Names(ev) = <<"write", "flush", "message_sent">>
  /\ ev[3].node = last.hdl

\* the calls of one handle() call other than the purge of a closed handle
Effects(evs) == {evs[i].e : i \in 1..Len(evs)} \ {"purge_state"}

\* C13: in the header phase a valid header with payload_len > 0 returns
\* await_payload, is retained, and calls no callee, no hook, writes no buffer
\* and changes no route, while a valid header with payload_len = 0 is
\* processed in the same call (a heartbeat, or a proxy announcement for this
\* node, reaches the callee, another frame for another node is forwarded or
\* reported,
\* a dispatch_message or kill_proxy without payload closes the connection);
\* in the payload phase the retained header is the one processed, a buffer
\* of exactly payload_len cells is processed, and any other size returns
\* close_connection with no effect but the close.
C13_header_then_payload_phase ==
  [][ last'.op = "stream" =>
        LET h == last'.hdl
            hdr == last'.hdr
        IN IF ~last'.is_payload
           THEN /\ (valid(hdr) /\ hdr.payload_len > 0) =>
                     /\ last'.ret = "await_payload"
                     /\ hdrs'[h] = hdr
                     /\ ev' = <<>>
                     /\ wr_buf' = wr_buf
                     /\ TableUnchanged
                /\ (valid(hdr) /\ hdr.payload_len = 0) =>
                     /\ last'.ret \in {"await_header", "close_connection"}
                     /\ hdrs'[h] = NoHdr
                     /\ (hdr.dest_node # this_node /\ hdr.operation # "heartbeat") =>
                          \/ Has(ev', "message_forwarded")
                          \/ Has(ev', "message_forwarding_failed")
                     /\ hdr.operation = "heartbeat" => Has(ev', "handle_heartbeat")
                     /\ (hdr.dest_node = this_node /\ hdr.operation = "announce_proxy") =>
                          Has(ev', "proxy_announced")
                     /\ (hdr.dest_node = this_node
                           /\ hdr.operation \in {"dispatch_message", "kill_proxy"}) =>
                          last'.ret = "close_connection"
           ELSE /\ hdr = hdrs[h]
                /\ last'.ret \in {"await_header", "close_connection"}
                /\ Len(last'.payload) # hdr.payload_len =>
                     /\ last'.ret = "close_connection"
                     /\ Effects(ev') = {}
                     /\ wr_buf' = wr_buf
                     /\ \A n \in NodeIds : direct_by_nid'[n] \in {direct_by_nid[n], nohdl}
    ]_vars

\* one connection holds a retained header while the other one closed on a
\* payload of the wrong size that belongs to a client handshake of a routed node
C13_wrong_size_closed_reached ==
  /\ \E h \in StreamHandles : cstate[h] = "await_payload" /\ hdrs[h].payload_len > 0
  /\ last.op = "stream"
  /\ last.is_payload
  /\ last.hdr.operation = "client_handshake"
  /\ Len(last.payload) # last.hdr.payload_len
  /\ last.ret = "close_connection"
  /\ direct_by_nid[last.hdr.source_node] # nohdl

\* a stream call that processed a complete udp handshake frame
UdpHandshakeOnStream(l) ==
  /\ l.op = "stream"
  /\ l.is_payload
  /\ l.hdr.operation \in {"udp_server_handshake", "udp_client_handshake"}
  /\ Len(l.payload) = l.hdr.payload_len

\* C14: a udp_server_handshake or udp_client_handshake frame received on a
\* stream handle is ignored: handle() returns await_header, the routing
\* table is unchanged and purge_state is not called.
C14_udp_handshake_on_stream_ignored ==
  [][ UdpHandshakeOnStream(last') =>
        /\ last'.ret = "await_header"
        /\ TableUnchanged
        /\ ~Has(ev', "purge_state")
    ]_vars

\* the cells a step appended to the buffer of h
Appended(h) == SubSeq(wr_buf'[h], Len(wr_buf[h]) + 1, Len(wr_buf'[h]))

HandshakeWriters ==
  {"write_server_handshake", "write_client_handshake",
   "write_udp_server_handshake", "write_udp_client_handshake"}

\* C15: every handshake frame the frame writer emits (write_server_handshake,
\* write_client_handshake, write_udp_server_handshake,
\* write_udp_client_handshake) carries the protocol version in operation_data.
C15_handshake_frames_carry_version ==
  [][ last'.op \in HandshakeWriters =>
        /\ FrameOk(Appended(last'.hdl))
        /\ FrameHdr(Appended(last'.hdl)).operation_data = version
    ]_vars

\* C15, amended: the frames of write_server_handshake,
\* write_udp_server_handshake and write_udp_client_handshake carry the
\* protocol version in operation_data; the frame of write_client_handshake
\* carries 0 there.
C15_handshake_frames_carry_version_but_client ==
  [][ last'.op \in HandshakeWriters =>
        /\ FrameOk(Appended(last'.hdl))
        /\ is_handshake(FrameHdr(Appended(last'.hdl)))
        /\ FrameHdr(Appended(last'.hdl)).operation_data =
             IF last'.op = "write_client_handshake" THEN 0 ELSE version
    ]_vars

\* a client handshake was written behind another frame and has no version
C15_client_handshake_written_reached ==
  /\ last.op = "write_client_handshake"
  /\ LET buf == wr_buf[last.hdl]
         n == Len(buf)
     IN /\ n > header_size + 1
        /\ LET frame == SubSeq(buf, n - header_size, n)
           IN /\ FrameOk(frame)
              /\ FrameHdr(frame).operation = "client_handshake"
              /\ FrameHdr(frame).operation_data = 0
              /\ version # 0

\* a reader of a buffer: a header, then payload_len cells, until the end;
\* what does not decode ends the sequence as a frame without header
RECURSIVE read_frames(_)
read_frames(buf) ==
  IF buf = <<>> THEN <<>>
  ELSE IF ~decode_ok(buf) \/ Len(buf) < header_size + FrameHdr(buf).payload_len
       THEN <<[hdr |-> NoHdr, payload |-> buf]>>
       ELSE LET n == header_size + FrameHdr(buf).payload_len
            IN <<[hdr |-> FrameHdr(buf), payload |-> SubSeq(buf, header_size + 1, n)]>>
                 \o read_frames(SubSeq(buf, n + 1, Len(buf)))

FrameWriters ==
  HandshakeWriters \cup {"write_announce_proxy", "write_kill_proxy", "write_heartbeat"}

\* C16: a write appends exactly one frame behind the content of the buffer
\* and changes no cell that was there: the header, as handed to write() but
\* with payload_len set to the number of cells the payload writer appended,
\* occupies the header_size cells from the old end, the payload writer's
\* cells follow it, and a reader of the buffer decodes the frames it decoded
\* before followed by this header and payload; no other buffer changes.
C16_write_appends_one_frame ==
  [][ last'.op \in FrameWriters =>
        LET h == last'.hdl
            old == wr_buf[h]
            new == wr_buf'[h]
            pos == Len(old)
            hdr == IF last'.is_payload
                   THEN [last'.hdr EXCEPT !.payload_len = Len(last'.payload)]
                   ELSE last'.hdr
        IN /\ Len(new) = pos + header_size + Len(last'.payload)
           /\ SubSeq(new, 1, pos) = old
           /\ decode_ok(SubSeq(new, pos + 1, pos + header_size))
           /\ decode(SubSeq(new, pos + 1, pos + header_size)) = hdr
           /\ SubSeq(new, pos + header_size + 1, Len(new)) = last'.payload
           /\ read_frames(new) = Append(read_frames(old), [hdr |-> hdr, payload |-> last'.payload])
           /\ \A g \in Handles \ {h} : wr_buf'[g] = wr_buf[g]
    ]_vars

\* a frame with a payload was written behind an earlier frame with a payload
C16_second_frame_written_reached ==
  /\ last.op \in FrameWriters
  /\ last.is_payload
  /\ Len(last.payload) > 0
  /\ LET frames == read_frames(wr_buf[last.hdl])
     IN /\ Len(frames) >= 2
        /\ frames[Len(frames)].payload = last.payload
        /\ frames[Len(frames)].hdr.payload_len = Len(last.payload)
        /\ frames[1].hdr.payload_len > 0
        /\ frames[1].hdr.operation # frames[Len(frames)].hdr.operation

\* the positions of the events of one kind on one handle
EventsOn(evs, e, h) == {i \in 1..Len(evs) : evs[i].e = e /\ evs[i].hdl = h}

\* C17: handle_heartbeat writes, for every direct route (h, n), exactly one
\* heartbeat frame with source_node = this_node, dest_node = n and no payload
\* behind the content of the buffer of h and then flushes h once; it touches
\* no other buffer, does nothing else and leaves the routing table unchanged.
C17_heartbeat_to_every_direct_route ==
  [][ last'.op = "heartbeat" =>
        /\ TableUnchanged
        /\ Len(ev') = 2 * Cardinality({h \in Handles : direct_by_hdl[h] # none})
        /\ \A h \in Handles :
             IF direct_by_hdl[h] # none
             THEN /\ \E w, f \in 1..Len(ev') :
                       /\ EventsOn(ev', "write", h) = {w}
                       /\ EventsOn(ev', "flush", h) = {f}
                       /\ w < f
                       /\ ev'[w].buf = encode(Header("heartbeat", 0, 0, 0, this_node,
                                                     direct_by_hdl[h],
                                                     invalid_actor_id, invalid_actor_id))
                       /\ ev'[f].buf = wr_buf[h] \o ev'[w].buf
                  /\ wr_buf'[h] = <<>>
             ELSE /\ \A i \in 1..Len(ev') : ev'[i].hdl # h
                  /\ wr_buf'[h] = wr_buf[h]
    ]_vars

\* the heartbeat timer fired while both remote nodes had a direct route
C17_heartbeat_to_two_routes_reached ==
  /\ last.op = "heartbeat"
  /\ \A n \in RemoteNodes : direct_by_nid[n] # nohdl
  /\ Count(ev, "write") >= 2
  /\ Count(ev, "flush") >= 2

\* C18: handle_node_shutdown(node) with node # none removes the route of
\* that node from both maps, leaves every other route alone and calls
\* purge_state(node) once when a route was removed (and nothing when the node
\* had none); with node = none it changes nothing and calls nothing.
C18_node_shutdown_erases_and_purges ==
  [][ last'.op = "shutdown" =>
        LET n == last'.hdl
        IN /\ wr_buf' = wr_buf
           /\ IF n = none
              THEN TableUnchanged /\ ev' = <<>>
              ELSE /\ direct_by_nid'[n] = nohdl
                   /\ \A h \in Handles :
                        direct_by_hdl'[h] = IF direct_by_hdl[h] = n THEN none
                                            ELSE direct_by_hdl[h]
                   /\ \A m \in NodeIds \ {n} : direct_by_nid'[m] = direct_by_nid[m]
                   /\ ev' = IF direct_by_nid[n] # nohdl
                            THEN <<EvNode("purge_state", n)>>
                            ELSE <<>>
    ]_vars

\* a node with a route was shut down while another node kept its route
C18_routed_node_shut_down_reached ==
  /\ last.op = "shutdown"
  /\ last.hdl \in RemoteNodes
  /\ ev = <<EvNode("purge_state", last.hdl)>>
  /\ direct_by_nid[last.hdl] = nohdl
  /\ \E m \in RemoteNodes : direct_by_nid[m] # nohdl

\* a stream call that processed a complete frame: the payload phase with a
\* payload of payload_len cells, or the header phase of a frame without payload
CompleteFrame(l) ==
  /\ l.op = "stream"
  /\ valid(l.hdr)
  /\ IF l.is_payload THEN Len(l.payload) = l.hdr.payload_len ELSE l.hdr.payload_len = 0

\* C19: a client_handshake frame whose source_node has a direct route is
\* ignored whatever its payload cells and app id: handle() returns
\* await_header, nothing is called or written and the routing table is
\* unchanged; a client_handshake from a node without a direct route whose
\* payload holds the local app id binds (handle, source_node) in both maps
\* and calls learned_new_node_directly(source_node) once.
C19_second_client_handshake_ignored ==
  [][ (CompleteFrame(last') /\ last'.hdr.operation = "client_handshake") =>
        LET h == last'.hdl
            n == last'.hdr.source_node
            p == last'.payload
        IN IF RouteOf(n) # nohdl
           THEN /\ last'.ret = "await_header"
                /\ ev' = <<>>
                /\ wr_buf' = wr_buf
                /\ TableUnchanged
           ELSE (bd_ok(p, 1, "str") /\ p[1].s = middleman_app_identifier) =>
                  /\ last'.ret = "await_header"
                  /\ direct_by_hdl'[h] = n
                  /\ direct_by_nid'[n] = h
                  /\ Count(ev', "learned_new_node_directly") = 1
                  /\ CountNode(ev', "learned_new_node_directly", n) = 1
                  /\ ~Has(ev', "purge_state")
    ]_vars

\* a client handshake with a foreign app id arrived from a node that has a
\* direct route on the other connection and was ignored
C19_second_client_handshake_reached ==
  /\ CompleteFrame(last)
  /\ last.hdr.operation = "client_handshake"
  /\ last.payload[1].s # middleman_app_identifier
  /\ last.ret = "await_header"
  /\ ev = <<>>
  /\ direct_by_nid[last.hdr.source_node] \in StreamHandles \ {last.hdl}

\* the payload of a dispatch_message or kill_proxy frame deserializes
Decodable(hdr, p) ==
  IF hdr.operation = "kill_proxy" THEN bd_ok(p, 1, "error")
  ELSE IF has_named_receiver(hdr) THEN bd_ok(p, 1, "atom") /\ bd_ok(p, 2, "stack_msg")
  ELSE bd_ok(p, 1, "stack_msg")

\* a complete dispatch_message frame for this node with a decodable payload
\* is delivered once, with the header's source_node and source_actor and
\* operation_data as message id, by receiver name when named_receiver_flag is
\* set and by dest_actor otherwise
DispatchDelivered ==
  (/\ CompleteFrame(last')
   /\ last'.hdr.operation = "dispatch_message"
   /\ last'.hdr.dest_node = this_node
   /\ last'.is_payload
   /\ Decodable(last'.hdr, last'.payload)) =>
     LET hdr == last'.hdr
         p == last'.payload
     IN /\ last'.ret = "await_header"
        /\ Names(ev') = <<"deliver">>
        /\ ev'[1].node = hdr.source_node
        /\ ev'[1].a = hdr.source_actor
        /\ ev'[1].c = hdr.operation_data
        /\ IF has_named_receiver(hdr)
           THEN ev'[1].s = p[1].s /\ ev'[1].b = invalid_actor_id /\ ev'[1].buf = <<p[2]>>
           ELSE ev'[1].s = "" /\ ev'[1].b = hdr.dest_actor /\ ev'[1].buf = <<p[1]>>
        /\ TableUnchanged
        /\ wr_buf' = wr_buf

\* a complete dispatch_message or kill_proxy frame for this node that has no
\* payload or a payload that does not deserialize
Undeliverable(l) ==
  /\ CompleteFrame(l)
  /\ l.hdr.operation \in {"dispatch_message", "kill_proxy"}
  /\ l.hdr.dest_node = this_node
  /\ ~l.is_payload \/ ~Decodable(l.hdr, l.payload)

\* C20: a dispatch_message frame addressed to this_node with a decodable
\* payload results in exactly one deliver call (see DispatchDelivered); a
\* dispatch_message or kill_proxy frame with no payload, or whose payload
\* fails to decode, results in no callee call and close_connection.
C20_dispatch_delivered_or_closed ==
  [][ /\ DispatchDelivered
      /\ Undeliverable(last') => (last'.ret = "close_connection" /\ ev' = <<>>)
    ]_vars

\* C20, amended: as C20, but the close of an undeliverable frame calls
\* purge_state for the node bound to the receiving handle, if there is one,
\* and makes no other call.
C20_dispatch_delivered_or_closed_with_purge ==
  [][ /\ DispatchDelivered
      /\ Undeliverable(last') =>
           /\ last'.ret = "close_connection"
           /\ wr_buf' = wr_buf
           /\ ev' = IF direct_by_hdl[last'.hdl] # none
                    THEN <<EvNode("purge_state", direct_by_hdl[last'.hdl])>>
                    ELSE <<>>
    ]_vars

\* a dispatch_message whose payload does not deserialize arrived on a handle
\* bound to a node: the connection closed and the node's state was purged
C20_undeliverable_closed_with_purge_reached ==
  /\ Undeliverable(last)
  /\ last.hdr.operation = "dispatch_message"
  /\ last.is_payload
  /\ last.ret = "close_connection"
  /\ Names(ev) = <<"purge_state">>
  /\ ev[1].node \in RemoteNodes
  /\ direct_by_hdl[last.hdl] = none

\* a header that is neither handshake nor heartbeat and names another node
ForOtherNode(hdr) ==
  /\ hdr.operation \in {"dispatch_message", "announce_proxy", "kill_proxy"}
  /\ hdr.dest_node # this_node

Deliveries == {"deliver", "proxy_announced", "kill_proxy", "handle_heartbeat"}
ForwardingHooks == {"message_forwarded", "message_forwarding_failed"}

\* C21: a datagram packet of complete frames that holds a frame for another
\* node (neither handshake nor heartbeat) is not forwarded: handle() returns
\* false, no route is bound to the originating handle afterwards, no
\* forwarding hook is emitted, and only the frames before it deliver to the
\* callee or write; when it is the first frame of the packet the
\* call writes no cell to any buffer, erases exactly the route of the
\* originating handle and calls purge_state once for its node and nothing else.
C21_datagram_frame_for_other_node_dropped ==
  [][ last'.op = "datagram" =>
        \A h \in {last'.hdl},
           at \in {{k \in DOMAIN read_frames(last'.payload) :
                      ForOtherNode(read_frames(last'.payload)[k].hdr)}} :
           at # {} =>
             /\ last'.ret = "false"
             /\ direct_by_hdl'[h] = none
             /\ \A i \in 1..Len(ev') : ev'[i].e \notin ForwardingHooks
             /\ \A k \in at :
                  /\ Count(ev', "write") <= k - 1
                  /\ Cardinality({i \in 1..Len(ev') : ev'[i].e \in Deliveries}) <= k - 1
             /\ 1 \in at =>
                  /\ wr_buf' = wr_buf
                  /\ ev' = IF direct_by_hdl[h] # none
                           THEN <<EvNode("purge_state", direct_by_hdl[h])>>
                           ELSE <<>>
                  /\ \A n \in NodeIds :
                       direct_by_nid'[n] = IF direct_by_nid[n] = h THEN nohdl
                                           ELSE direct_by_nid[n]
                  /\ \A g \in Handles \ {h} : direct_by_hdl'[g] = direct_by_hdl[g]
    ]_vars

\* a frame for a node arrived first in a packet on the datagram handle that
\* was bound to that very node: the node lost its route, nothing was forwarded
C21_datagram_frame_dropped_reached ==
  /\ last.op = "datagram"
  /\ ForOtherNode(read_frames(last.payload)[1].hdr)
  /\ last.ret = "false"
  /\ ev = <<EvNode("purge_state", read_frames(last.payload)[1].hdr.dest_node)>>
  /\ direct_by_hdl[last.hdl] = none

\* the frames of a packet handled one after the other, each as a packet of
\* its own, up to and including the first one that fails
RECURSIVE frame_by_frame(_, _, _, _, _)
frame_by_frame(M, h, frames, pub, port) ==
  IF frames = <<>> THEN Ret(M, "true")
  ELSE LET f == Head(frames)
           R == dgram_handle(M, h, encode(f.hdr) \o f.payload, <<>>, pub, port)
       IN IF R.ret # "true" THEN R
          ELSE frame_by_frame(R.m, h, Tail(frames), pub, port)

\* C22: datagram handle() on a packet of complete frames processes the
\* frames in buffer order, each from the state the frame before it left, and
\* stops at the first frame that fails: it returns true iff no frame failed;
\* when it returns false no route is bound to the originating handle,
\* purge_state was called at most once, for the node the handle was bound to
\* at that moment, and nothing happens after it; when it returns true
\* purge_state is not called.
C22_datagram_frames_in_order ==
  [][ last'.op = "datagram" =>
        LET h == last'.hdl
            k == Len(ev')
        IN /\ last'.ret \in {"true", "false"}
           /\ \E port \in {NoPort} \cup Ports :
                \E E \in {frame_by_frame(M0, h, read_frames(last'.payload),
                                         published_actors, port)} :
                   /\ last'.ret = E.ret
                   /\ ev' = E.m.ev
                   /\ direct_by_hdl' = E.m.by_hdl
                   /\ direct_by_nid' = E.m.by_nid
                   /\ wr_buf' = E.m.wr_buf
           /\ last'.ret = "true" => ~Has(ev', "purge_state")
           /\ last'.ret = "false" =>
                /\ direct_by_hdl'[h] = none
                /\ Count(ev', "purge_state") <= 1
                /\ Has(ev', "purge_state") =>
                     /\ ev'[k].e = "purge_state"
                     /\ direct_by_nid'[ev'[k].node] = nohdl
    ]_vars

\* a packet of two frames: the first one was accepted and bound the handle,
\* the second one failed and the node was purged
C22_second_frame_failed_reached ==
  /\ last.op = "datagram"
  /\ Len(read_frames(last.payload)) = 2
  /\ last.ret = "false"
  /\ Len(ev) >= 3
  /\ Has(ev, "learned_new_node_directly")
  /\ ev[Len(ev)].e = "purge_state"
  /\ CountNode(ev, "learned_new_node_directly", ev[Len(ev)].node) = 1

\* a packet that ends inside a frame: its last frame has fewer cells than
\* header_size, or fewer cells behind the header than its payload_len
EndsInsideFrame(buf) ==
  /\ buf # <<>>
  /\ read_frames(buf)[Len(read_frames(buf))].hdr = NoHdr

\* C23: datagram handle() fails the whole packet on a partial frame: when
\* the cells left in the packet are fewer than header_size, or fewer than the
\* payload_len of the header just decoded, it returns false, and a packet
\* that is nothing but a partial frame causes no callee call, no hook and no
\* write.
C23_partial_frame_fails_packet ==
  [][ (last'.op = "datagram" /\ EndsInsideFrame(last'.payload)) =>
        /\ last'.ret = "false"
        /\ Len(read_frames(last'.payload)) = 1 => Effects(ev') = {}
    ]_vars

--------------------------------------------------------------------------
\* C24: every node that loses its direct route through an operation of the
\* instance has purge_state invoked for it in that operation; in particular
\* when a server_handshake or client_handshake of a new node n2 is accepted
\* on a handle that is bound to n1, n1 keeps its route or purge_state(n1) is
\* called
C24_lost_route_is_purged ==
  [][ \A n \in NodeIds :
        (direct_by_nid[n] # nohdl /\ direct_by_nid'[n] = nohdl) =>
          CountNode(ev', "purge_state", n) >= 1
    ]_vars

--------------------------------------------------------------------------
\* C25: every frame that stream or datagram handle() writes into the write
\* buffer of an endpoint (the client_handshake reply, the
\* udp_server_handshake reply to a udp_client_handshake, a forwarded frame)
\* is followed by a flush of that endpoint before the same call returns
C25_written_frame_is_flushed ==
  [][ last'.op \in {"stream", "datagram"} =>
        \A i \in 1..Len(ev') :
          ev'[i].e = "write" =>
            \E j \in (i + 1)..Len(ev') :
              ev'[j].e = "flush" /\ ev'[j].hdl = ev'[i].hdl
    ]_vars

--------------------------------------------------------------------------
\* the ports whose entry a step removes
RemovedPorts ==
  {p \in PublishedPorts : published_actors[p].present /\ ~published_actors'[p].present}

\* the ports a remove_published_actor call has to remove, from its arguments
PortsToRemove ==
  IF last'.op = "remove_published_actor"
  THEN {p \in PublishedPorts : p = last'.payload[1].v /\ published_actors[p].present}
  ELSE {p \in PublishedPorts :
          /\ published_actors[p].present
          /\ published_actors[p].id = last'.payload[1].v
          /\ last'.payload[2].v \in {0, p}}

\* C26: the map of published actors changes only through add_published_actor
\* and remove_published_actor; a remove returns the number of entries it
\* removed and calls the callback once per removed entry; remove(port) removes
\* the entry at port if present; remove(whom, port) with port != 0 removes the
\* entry at port only when its actor is whom, and with port = 0 it removes
\* every entry whose actor is whom and no other
C26_published_actors_add_remove ==
  [][ /\ published_actors' # published_actors =>
           last'.op \in {"add_published_actor", "remove_published_actor",
                         "remove_published_actor_of"}
      /\ last'.op \in {"remove_published_actor", "remove_published_actor_of"} =>
           /\ RemovedPorts = PortsToRemove
           /\ \A p \in PublishedPorts \ RemovedPorts :
                published_actors'[p] = published_actors[p]
           /\ last'.ret = Cardinality(RemovedPorts)
           /\ Len(ev') = IF last'.is_payload THEN Cardinality(RemovedPorts) ELSE 0
           /\ \A p \in RemovedPorts :
                last'.is_payload =>
                  Cardinality({i \in 1..Len(ev') :
                                 /\ ev'[i].e = "removed_published_actor"
                                 /\ ev'[i].a = published_actors[p].id
                                 /\ ev'[i].b = p}) = 1
    ]_vars

\* remove(whom, 0) with a callback removed two entries of whom and left the
\* entry of another actor
C26_all_entries_of_actor_removed_reached ==
  /\ last.op = "remove_published_actor_of"
  /\ last.payload[2].v = 0
  /\ last.ret = 2
  /\ Len(ev) = 2
  /\ \E p \in PublishedPorts :
       published_actors[p].present /\ published_actors[p].id # last.payload[1].v

====
